---- MODULE Spec2Model ----
(***************************************************************************)
(* Model of the bootstrap contact cache of crust,                          *)
(* src/src/bootstrap_handler.rs: a capacity-bounded, ordered list of       *)
(* contacts kept in one file that every operation re-reads and that        *)
(* update_contacts / insert_contacts overwrite.                            *)
(*                                                                         *)
(* The state is the backing file and the record of the call that has just  *)
(* completed (its arguments, the file it found, the handler's local        *)
(* values, its result).  One action is one whole call of one handler.      *)
(* For two callers that share the file without a lock (SpecConc), calls    *)
(* holds each caller's update in flight and a call is three steps: the     *)
(* read, File::create, and the write.                                      *)
(***************************************************************************)
EXTENDS Integers, Sequences, FiniteSets

VARIABLES file, last, calls

vars == <<file, last, calls>>

-----------------------------------------------------------------------------
(* Bounds and constants *)

\* const MAX_CONTACTS: usize = 1500, scaled down so that a full list is
\* reachable.
MAX_CONTACTS == 3

\* The contacts callers offer are 1..NumContacts.  A contact is an endpoint
\* value; the handlers only ever compare contacts for equality.
NumContacts == 4

\* A call passes at most MaxBatch contacts in all (add batch plus prune
\* batch): one more than the list may hold, so that a batch can overflow it.
MaxBatch == MAX_CONTACTS + 1

\* A prune batch names at most MaxPrune contacts.
MaxPrune == 2

\* The file an earlier writer left holds at most MaxFile contacts (SpecAny).
MaxFile == 2

\* Under I/O failures (SpecIO) a call passes at most MaxBatchIO contacts, and
\* a failed write! leaves at most MaxPartial tokens of the text.
MaxBatchIO == 2

MaxPartial == 2

\* serialise_contacts is given lists of at most MaxList contacts and
\* parse_contacts buffers of at most MaxBuffer tokens (SpecCodec).
MaxList == 3

MaxBuffer == 3

\* Two callers at once (SpecConc) each pass at most MaxBatchConc contacts.
MaxBatchConc == 1

Contacts == 1..NumContacts

\* Prune batches can also name contact 0, which no add batch offers: a
\* contact that is in no list.
PruneContacts == 0..NumContacts

SeqsUpTo(S, n) == UNION {[1..k -> S] : k \in 0..n}

Min(a, b) == IF a < b THEN a ELSE b

Max(a, b) == IF a > b THEN a ELSE b

AddBatches == SeqsUpTo(Contacts, MaxBatch)

\* insert_contacts reads prune only through prune.len() > 0 and
\* prune.contains(x), so a prune batch is taken up to order and repetition:
\* the strictly increasing sequences.
PruneBatches ==
    {p \in SeqsUpTo(PruneContacts, Min(MaxPrune, MaxBatch)) :
        \A i \in 1..(Len(p) - 1) : p[i] < p[i + 1]}

Inputs ==
    {io \in AddBatches \X PruneBatches : Len(io[1]) + Len(io[2]) <= MaxBatch}

\* oldest_contacts(n) is called with n up to one more than any batch, hence
\* more than the longest list a call can leave.
OldestArgs == 0..(MaxBatch + 1)

-----------------------------------------------------------------------------
(* Vec<Contact> operations *)

Contains(s, x) == \E i \in 1..Len(s) : s[i] = x

\* Vec::retain(|x| !other.contains(x))
RetainNotIn(s, other) == SelectSeq(s, LAMBDA x : ~Contains(other, x))

RECURSIVE Rev(_)
Rev(s) == IF s = <<>> THEN <<>> ELSE Rev(Tail(s)) \o <<Head(s)>>

Take(s, n) == SubSeq(s, 1, Min(Max(n, 0), Len(s)))

\* itertools unique(): every element that has not been seen before, in
\* iteration order.
RECURSIVE UniqueFrom(_, _)
UniqueFrom(seen, s) ==
    IF s = <<>> THEN <<>>
    ELSE IF Head(s) \in seen THEN UniqueFrom(seen, Tail(s))
    ELSE <<Head(s)>> \o UniqueFrom(seen \cup {Head(s)}, Tail(s))

Unique_Keep(s) == s

Unique(s) == UniqueFrom({}, s)

-----------------------------------------------------------------------------
(* JSON text of a contact list, as a sequence of tokens *)

Tok(k, c) == [kind |-> k, c |-> c]

LBracket == Tok("[", 0)
RBracket == Tok("]", 0)
Comma == Tok(",", 0)
Newline == Tok("nl", 0)
Elem(c) == Tok("contact", c)

\* json::encode: [c1,c2,...]
RECURSIVE EncodeItems(_)
EncodeItems(s) ==
    IF s = <<>> THEN <<>>
    ELSE IF Len(s) = 1 THEN <<Elem(s[1])>>
    ELSE <<Elem(s[1]), Comma>> \o EncodeItems(Tail(s))

Encode(s) == <<LBracket>> \o EncodeItems(s) \o <<RBracket>>

\* json::as_pretty_json: "[]" for the empty list, else one element per line.
RECURSIVE PrettyItems(_)
PrettyItems(s) ==
    IF s = <<>> THEN <<>>
    ELSE IF Len(s) = 1 THEN <<Newline, Elem(s[1]), Newline>>
    ELSE <<Newline, Elem(s[1]), Comma>> \o PrettyItems(Tail(s))

EncodePretty(s) == <<LBracket>> \o PrettyItems(s) \o <<RBracket>>

\* json::decode::<Contacts>: whitespace is skipped; the text must be one
\* array "[" "]" or "[" contact ("," contact)* "]".
Decode(bytes) ==
    LET ts == SelectSeq(bytes, LAMBDA t : t.kind # "nl")
        n == Len(ts)
        inner == IF n >= 2 THEN SubSeq(ts, 2, n - 1) ELSE <<>>
        m == Len(inner)
        shape == /\ n >= 2
                 /\ ts[1] = LBracket
                 /\ ts[n] = RBracket
                 /\ m = 0 \/ m % 2 = 1
                 /\ \A i \in 1..m :
                       IF i % 2 = 1 THEN inner[i].kind = "contact"
                                    ELSE inner[i] = Comma
    IN  IF shape
        THEN [ok |-> TRUE,
              val |-> [i \in 1..((m + 1) \div 2) |-> inner[2 * i - 1].c]]
        ELSE [ok |-> FALSE, val |-> <<>>]

\* A byte that is not part of any UTF-8 text.
BadByte == Tok("bad", 0)

\* Option<Contacts>
Some(v) == [some |-> TRUE, val |-> v]

None == [some |-> FALSE, val |-> <<>>]

\* serialise_contacts as a bug would have it: repeated contacts are written
\* once.
serialise_contacts_Unique(contacts) == Encode(Unique(contacts))

\* serialise_contacts: json::encode(&contacts).unwrap().into_bytes()
serialise_contacts(contacts) == Encode(contacts)

\* parse_contacts: String::from_utf8(buffer).ok().and_then(json::decode(..).ok())
parse_contacts(buffer) ==
    IF \E i \in 1..Len(buffer) : buffer[i] = BadByte
    THEN None
    ELSE LET d == Decode(buffer)
         IN  IF d.ok THEN Some(d.val) ELSE None

-----------------------------------------------------------------------------
(* Results: io::Result<Contacts> and io::Result<()> *)

Ok(v) == [ok |-> TRUE, val |-> v, err |-> "none"]

Err(e) == [ok |-> FALSE, val |-> <<>>, err |-> e]

\* The backing file: absent, or present with some content.
Absent == [exists |-> FALSE, bytes |-> <<>>]

Stored(bytes) == [exists |-> TRUE, bytes |-> bytes]

\* The list a file holds when it can be decoded.
ListOf(f) == Decode(f.bytes).val

Decodable(f) == f.exists /\ Decode(f.bytes).ok

-----------------------------------------------------------------------------
(* I/O failures a call can meet.  "none": every step succeeds. *)

\* File::open fails for a reason other than a missing file ("open");
\* read_to_string fails ("read").
ReadFaults == {"none", "open", "read"}

\* File::create fails ("create"); write! fails after part of the text
\* ("write"); sync_all fails ("sync").
WriteFaults == {"none", "create", "write", "sync"}

-----------------------------------------------------------------------------
(* The handlers *)

\* read_bootstrap_file: open, read_to_string, json::decode; each failure is
\* returned as Err.
ReadMissing_Empty(f, rf) ==
    LET d == Decode(f.bytes)
    IN  IF ~f.exists THEN Ok(<<>>)
        ELSE IF rf = "open" THEN Err("Io")
        ELSE IF rf = "read" THEN Err("Io")
        ELSE IF d.ok THEN Ok(d.val)
        ELSE Err("Decode")

read_bootstrap_file(f, rf) ==
    LET d == Decode(f.bytes)
    IN  IF ~f.exists THEN Err("NotFound")
        ELSE IF rf = "open" THEN Err("Io")
        ELSE IF rf = "read" THEN Err("Io")
        ELSE IF d.ok THEN Ok(d.val)
        ELSE Err("Decode")

\* unwrap_or_else(|e| { println!(..); Contacts::new() })
UnwrapOrEmpty(r) == IF r.ok THEN r.val ELSE <<>>

\* bootstrap_contacts.iter().rev().take(n).collect()
Oldest_Front(l, n) == Take(l, n)

Oldest(l, n) == Take(Rev(l), n)

\* oldest_contacts as a bug would have it: try!(read_bootstrap_file).
oldest_contacts_Try(f, n, rf) ==
    LET r == read_bootstrap_file(f, rf)
    IN  IF r.ok THEN Ok(Oldest(r.val, n)) ELSE r

oldest_contacts(f, n, rf) == Ok(Oldest(UnwrapOrEmpty(read_bootstrap_file(f, rf)), n))

\* get_serialised_contacts: try!(read_bootstrap_file), then serialise_contacts.
get_serialised_contacts(f, rf) ==
    LET r == read_bootstrap_file(f, rf)
    IN  IF r.ok THEN Ok(serialise_contacts(r.val)) ELSE r

\* if prune.len() > 0 { bootstrap_contacts.retain(|x| !prune.contains(&x)); }
Prune_None(l, prune) == l

Prune_First(l, prune) ==
    IF Len(prune) > 0 THEN SelectSeq(l, LAMBDA x : x # prune[1]) ELSE l

Prune(l, prune) == IF Len(prune) > 0 THEN RetainNotIn(l, prune) ELSE l

\* contacts.retain(|x| !bootstrap_contacts.contains(&x));
Filter(add, l) == RetainNotIn(add, l)

\* loop { if len < MAX_CONTACTS && !contacts.is_empty()
\*            { bootstrap_contacts.insert(0, contacts.remove(0)); }
\*        else { break; } }
RECURSIVE InsertLoop(_, _)
InsertLoop(l, add) ==
    IF Len(l) < MAX_CONTACTS /\ add # <<>>
    THEN InsertLoop(<<Head(add)>> \o l, Tail(add))
    ELSE l

\* The loop as a bug would have it: the new contact evicts the oldest one
\* when the list is full.
RECURSIVE InsertLoop_Evict(_, _)
InsertLoop_Evict(l, add) ==
    IF add = <<>> THEN l
    ELSE InsertLoop_Evict(<<Head(add)>> \o Take(l, MAX_CONTACTS - 1), Tail(add))

\* The loop as a bug would have it: the batch is prepended as a block.
InsertLoop_Block(l, add) == Take(add, MAX_CONTACTS - Len(l)) \o l

\* if bootstrap_contacts.len() == 0 { bootstrap_contacts = contacts; }
\* else { loop ... }
Merge_Evict(l, add) == IF Len(l) = 0 THEN add ELSE InsertLoop_Evict(l, add)

Merge_NoCap(l, add) == IF Len(l) = 0 THEN add ELSE Rev(add) \o l

Merge_Block(l, add) == IF Len(l) = 0 THEN add ELSE InsertLoop_Block(l, add)

Merge_LoopOnly(l, add) == InsertLoop(l, add)

Merge(l, add) == IF Len(l) = 0 THEN add ELSE InsertLoop(l, add)

\* write_bootstrap_file as a bug would have it: the result of sync_all is
\* dropped.
write_bootstrap_file_NoSync(f, contacts, wf, k) ==
    LET bytes == EncodePretty(Unique(contacts))
    IN  IF wf = "create" THEN [file |-> f, res |-> Err("Io")]
        ELSE IF wf = "write"
        THEN [file |-> Stored(SubSeq(bytes, 1, Min(k, Len(bytes) - 1))),
              res |-> Err("Io")]
        ELSE [file |-> Stored(bytes), res |-> Ok(<<>>)]

\* write_bootstrap_file: unique(), File::create (truncates), write!, sync_all.
\* k: how many tokens reach the file when write! fails.
write_bootstrap_file(f, contacts, wf, k) ==
    LET bytes == EncodePretty(Unique(contacts))
    IN  IF wf = "create" THEN [file |-> f, res |-> Err("Io")]
        ELSE IF wf = "write"
        THEN [file |-> Stored(SubSeq(bytes, 1, Min(k, Len(bytes) - 1))),
              res |-> Err("Io")]
        ELSE IF wf = "sync" THEN [file |-> Stored(bytes), res |-> Err("Io")]
        ELSE [file |-> Stored(bytes), res |-> Ok(<<>>)]

\* insert_contacts as a bug would have it: a read error other than a missing
\* file is returned to the caller and the file is left alone.
insert_contacts_Try(f, add, prune, rf, wf, k) ==
    LET r == read_bootstrap_file(f, rf)
        bootstrap_contacts == UnwrapOrEmpty(r)
        pruned == Prune(bootstrap_contacts, prune)
        filtered == Filter(add, pruned)
        merged == Merge(pruned, filtered)
        w == IF r.ok \/ r.err = "NotFound"
             THEN write_bootstrap_file(f, merged, wf, k)
             ELSE [file |-> f, res |-> r]
    IN  [read |-> bootstrap_contacts, pruned |-> pruned, filtered |-> filtered,
         merged |-> merged, file |-> w.file, res |-> w.res]

\* insert_contacts as a bug would have it: the add batch is filtered against
\* the list before the prune batch is applied.
insert_contacts_FilterFirst(f, add, prune, rf, wf, k) ==
    LET bootstrap_contacts == UnwrapOrEmpty(read_bootstrap_file(f, rf))
        filtered == Filter(add, bootstrap_contacts)
        pruned == Prune(bootstrap_contacts, prune)
        merged == Merge(pruned, filtered)
        w == write_bootstrap_file(f, merged, wf, k)
    IN  [read |-> bootstrap_contacts, pruned |-> pruned, filtered |-> filtered,
         merged |-> merged, file |-> w.file, res |-> w.res]

\* insert_contacts: the handler's local values and what it leaves.
insert_contacts(f, add, prune, rf, wf, k) ==
    LET bootstrap_contacts == UnwrapOrEmpty(read_bootstrap_file(f, rf))
        pruned == Prune(bootstrap_contacts, prune)
        filtered == Filter(add, pruned)
        merged == Merge(pruned, filtered)
        w == write_bootstrap_file(f, merged, wf, k)
    IN  [read |-> bootstrap_contacts, pruned |-> pruned, filtered |-> filtered,
         merged |-> merged, file |-> w.file, res |-> w.res]

-----------------------------------------------------------------------------
(* The state machine *)

Call(op, add, prune, n, again, ft, before, ins, res) ==
    [op |-> op, add |-> add, prune |-> prune, n |-> n, again |-> again,
     fault |-> ft, before |-> before, read |-> ins.read, pruned |-> ins.pruned,
     filtered |-> ins.filtered, merged |-> ins.merged, res |-> res]

NoLocals == [read |-> <<>>, pruned |-> <<>>, filtered |-> <<>>, merged |-> <<>>]

NoFault == [rf |-> "none", wf |-> "none", k |-> 0]

NoCall ==
    Call("none", <<>>, <<>>, 0, FALSE, NoFault, Absent, NoLocals, Ok(<<>>))

Idle == last.op = "none"

\* Two callers share the file: two handlers on the same file name.
Procs == {1, 2}

Other(p) == CHOOSE q \in Procs : q # p

\* An update of one caller: where it stands (idle, read, created, done), its
\* batches, the list it read, the text it is to write; whether it read after
\* the other caller's update had completed, whether its File::create fell
\* between the other's File::create and write, whether it wrote last.
NoUpdate ==
    [pc |-> "idle", add |-> <<>>, prune |-> <<>>, snap |-> <<>>,
     text |-> <<>>, after |-> FALSE, overlap |-> FALSE, final |-> FALSE]

NoUpdates == [p \in Procs |-> NoUpdate]

\* BootstrapHandler::new() opens nothing: the file is as the environment left
\* it, missing or (as every test does with File::create) empty.
Init ==
    /\ file \in {Absent, Stored(<<>>)}
    /\ last = NoCall
    /\ calls = NoUpdates

\* update_contacts(contacts, prune): try!(insert_contacts(..)); the
\* last_updated check that follows has an empty body.
Update(add, prune, ft, again) ==
    LET ins == insert_contacts(file, add, prune, ft.rf, ft.wf, ft.k)
    IN  /\ file' = ins.file
        /\ last' = Call("update", add, prune, 0, again, ft, file, ins, ins.res)
        /\ UNCHANGED calls

NoFaults == {NoFault}

UpdateContacts(inputs, faults) ==
    /\ Idle
    /\ \E io \in inputs :
          \E ft \in faults : Update(io[1], io[2], ft, FALSE)

\* The caller repeats the add-only call it has just made, with the same
\* batch (test::bootstrap_handler_test re-inserts the same contacts).
UpdateAgain ==
    /\ last.op = "update"
    /\ last.prune = <<>>
    /\ last.res.ok
    /\ Update(last.add, <<>>, NoFault, TRUE)

ReadBootstrapFile(rfs) ==
    /\ Idle
    /\ \E rf \in rfs :
          last' = Call("read", <<>>, <<>>, 0, FALSE,
                       [rf |-> rf, wf |-> "none", k |-> 0], file, NoLocals,
                       read_bootstrap_file(file, rf))
    /\ UNCHANGED <<file, calls>>

\* OldestContacts as a bug would have it: a file that cannot be read or
\* decoded is replaced by the text of the empty list.
OldestContacts_Create(rfs) ==
    /\ Idle
    /\ \E n \in OldestArgs, rf \in rfs :
          /\ last' = Call("oldest", <<>>, <<>>, n, FALSE,
                          [rf |-> rf, wf |-> "none", k |-> 0], file, NoLocals,
                          oldest_contacts(file, n, rf))
          /\ file' = IF read_bootstrap_file(file, rf).ok
                     THEN file
                     ELSE Stored(EncodePretty(<<>>))
    /\ UNCHANGED calls

OldestContacts(rfs) ==
    /\ Idle
    /\ \E n \in OldestArgs, rf \in rfs :
          last' = Call("oldest", <<>>, <<>>, n, FALSE,
                       [rf |-> rf, wf |-> "none", k |-> 0], file, NoLocals,
                       oldest_contacts(file, n, rf))
    /\ UNCHANGED <<file, calls>>

GetSerialisedContacts(rfs) ==
    /\ Idle
    /\ \E rf \in rfs :
          last' = Call("serialised", <<>>, <<>>, 0, FALSE,
                       [rf |-> rf, wf |-> "none", k |-> 0], file, NoLocals,
                       get_serialised_contacts(file, rf))
    /\ UNCHANGED <<file, calls>>

\* The caller has taken the result; the handler keeps nothing between calls
\* but the file.
Return ==
    /\ ~Idle
    /\ last' = NoCall
    /\ UNCHANGED <<file, calls>>

Next ==
    \/ UpdateContacts(Inputs, NoFaults)
    \/ UpdateAgain
    \/ ReadBootstrapFile({"none"})
    \/ OldestContacts({"none"})
    \/ GetSerialisedContacts({"none"})
    \/ Return

Spec == Init /\ [][Next]_vars

-----------------------------------------------------------------------------
(* The file was left by some earlier writer: any list, repeated contacts
   included. *)

InitAny ==
    /\ file \in {Stored(EncodePretty(l)) : l \in SeqsUpTo(Contacts, MaxFile)}
    /\ last = NoCall
    /\ calls = NoUpdates

InputsAny == {io \in Inputs : Len(io[1]) + Len(io[2]) < MaxBatch}

NextAny ==
    \/ UpdateContacts(InputsAny, NoFaults)
    \/ UpdateAgain
    \/ ReadBootstrapFile({"none"})
    \/ OldestContacts({"none"})
    \/ GetSerialisedContacts({"none"})
    \/ Return

SpecAny == InitAny /\ [][NextAny]_vars

-----------------------------------------------------------------------------
(* Calls that can meet I/O failures. *)

Faults ==
    {[rf |-> rf, wf |-> wf, k |-> k] :
        rf \in ReadFaults, wf \in WriteFaults, k \in 0..MaxPartial}

\* k only matters to a failed write!.
FaultsIO == {ft \in Faults : ft.wf # "write" => ft.k = 0}

InputsIO ==
    {io \in Inputs : Len(io[1]) + Len(io[2]) <= MaxBatchIO /\ Len(io[2]) <= 1}

NextIO ==
    \/ UpdateContacts(InputsIO, FaultsIO)
    \/ UpdateAgain
    \/ ReadBootstrapFile(ReadFaults)
    \/ OldestContacts(ReadFaults)
    \/ GetSerialisedContacts(ReadFaults)
    \/ Return

SpecIO == Init /\ [][NextIO]_vars

-----------------------------------------------------------------------------
(* The two free functions, serialise_contacts and parse_contacts, called by
   a peer that sends its contact list and a peer that receives a buffer. *)

Lists == SeqsUpTo(Contacts, MaxList)

Tokens == {LBracket, RBracket, Comma, Newline, BadByte} \cup {Elem(c) : c \in Contacts}

Buffers == SeqsUpTo(Tokens, MaxBuffer)

CodecCall(op, list, buffer, roundtrip, res) ==
    [op |-> op, list |-> list, buffer |-> buffer, roundtrip |-> roundtrip,
     res |-> res]

SerialiseContacts ==
    /\ Idle
    /\ \E l \in Lists :
          last' = CodecCall("serialise", l, serialise_contacts(l), FALSE, None)
    /\ UNCHANGED <<file, calls>>

\* The buffer serialise_contacts returned is handed to parse_contacts.
ParseSerialised ==
    /\ last.op = "serialise"
    /\ last' = CodecCall("parse", last.list, last.buffer, TRUE,
                         parse_contacts(last.buffer))
    /\ UNCHANGED <<file, calls>>

\* parse_contacts is handed a buffer from anywhere.
ParseContacts ==
    /\ Idle
    /\ \E b \in Buffers :
          last' = CodecCall("parse", <<>>, b, FALSE, parse_contacts(b))
    /\ UNCHANGED <<file, calls>>

NextCodec ==
    \/ SerialiseContacts
    \/ ParseSerialised
    \/ ParseContacts
    \/ Return

SpecCodec == Init /\ [][NextCodec]_vars

-----------------------------------------------------------------------------
(* Two callers update the same file with nothing to serialise them.
   insert_contacts reads the file at its start and writes it at its end;
   write_bootstrap_file truncates the file in File::create and then writes
   its text from offset 0 through its own descriptor. *)

\* The two callers and the file before them name as many contacts as fill
\* a list, and contact 0 that is in no list.
ConcContacts == 1..MAX_CONTACTS

\* The file some earlier updates left: missing, or a list without repeats
\* that has room for another contact.
InitConc ==
    /\ file \in {Absent} \cup
                {Stored(EncodePretty(l)) :
                    l \in {m \in SeqsUpTo(ConcContacts, MAX_CONTACTS - 1) :
                              \A i, j \in 1..Len(m) : m[i] = m[j] => i = j}}
    /\ last = NoCall
    /\ calls = NoUpdates

InputsConc ==
    {io \in SeqsUpTo(ConcContacts, MaxBatchConc) \X
                {p \in PruneBatches :
                    \A i \in 1..Len(p) : p[i] \in ConcContacts \cup {0}} :
        Len(io[1]) + Len(io[2]) <= MaxBatchConc}

\* A write of text at offset 0 of a file that holds cur.
Overlay(cur, text) == text \o SubSeq(cur, Len(text) + 1, Len(cur))

\* insert_contacts up to the call of write_bootstrap_file: the read and the
\* computation of the new list, and unique() and the text to write.
ConcRead(p) ==
    /\ calls[p].pc = "idle"
    /\ \E io \in InputsConc :
          LET ins == insert_contacts(file, io[1], io[2], "none", "none", 0)
          IN  calls' = [calls EXCEPT ![p] =
                           [pc |-> "read", add |-> io[1], prune |-> io[2],
                            snap |-> ins.read, text |-> ins.file.bytes,
                            after |-> calls[Other(p)].pc = "done",
                            overlap |-> FALSE, final |-> FALSE]]
    /\ UNCHANGED <<file, last>>

\* File::create as a bug would have it: the file is opened for writing
\* without being truncated.
ConcCreate_NoTruncate(p) ==
    /\ calls[p].pc = "read"
    /\ file' = IF file.exists THEN file ELSE Stored(<<>>)
    /\ calls' = [q \in Procs |->
                    IF q = p THEN [calls[q] EXCEPT !.pc = "created"]
                    ELSE calls[q]]
    /\ UNCHANGED last

\* File::create: the file is there and empty.
ConcCreate(p) ==
    /\ calls[p].pc = "read"
    /\ file' = Stored(<<>>)
    /\ LET both == calls[Other(p)].pc = "created"
       IN  calls' = [q \in Procs |->
                        IF q = p
                        THEN [calls[q] EXCEPT !.pc = "created",
                                              !.overlap = both]
                        ELSE [calls[q] EXCEPT !.overlap = @ \/ both]]
    /\ UNCHANGED last

\* write! and sync_all.
ConcWrite(p) ==
    /\ calls[p].pc = "created"
    /\ file' = Stored(Overlay(file.bytes, calls[p].text))
    /\ calls' = [q \in Procs |->
                    IF q = p
                    THEN [calls[q] EXCEPT !.pc = "done", !.final = TRUE]
                    ELSE [calls[q] EXCEPT !.final = FALSE]]
    /\ UNCHANGED last

NextConc ==
    \E p \in Procs :
        \/ ConcRead(p)
        \/ ConcCreate(p)
        \/ ConcWrite(p)

SpecConc == InitConc /\ [][NextConc]_vars

-----------------------------------------------------------------------------
(* What the claims speak of *)

\* A successful update has just completed.
UpdateDone == last.op = "update" /\ last.res.ok

\* The persisted list the call found: the decoded file, or the empty list
\* when the file was missing or could not be decoded.
BeforeList ==
    LET d == Decode(last.before.bytes)
    IN  IF last.before.exists /\ d.ok THEN d.val ELSE <<>>

\* The persisted list now.
AfterList == ListOf(file)

Elems(s) == {s[i] : i \in 1..Len(s)}

NoDup(s) == \A i, j \in 1..Len(s) : i # j => s[i] # s[j]

FirstIndex(s, x) == CHOOSE i \in 1..Len(s) : s[i] = x /\ \A j \in 1..(i - 1) : s[j] # x

Without(s, other) ==
    LET gone == Elems(other) IN SelectSeq(s, LAMBDA x : x \notin gone)

\* The list left by the prune batch, and the add batch without the contacts
\* of that list.
PostPrune == Without(BeforeList, last.prune)

AddNew == Without(last.add, PostPrune)

\* s without the later copies of a contact it holds more than once.
FirstOccurrences(s) ==
    LET idx == SelectSeq([i \in 1..Len(s) |-> i],
                         LAMBDA i : \A j \in 1..(i - 1) : s[j] # s[i])
    IN  [n \in 1..Len(idx) |-> s[idx[n]]]

-----------------------------------------------------------------------------
(* C1..C10 *)

\* C1 (capacity bound): starting from an absent or empty file, after any
\* sequence of update calls the list read_bootstrap_file returns has at most
\* MAX_CONTACTS contacts.
C1_CapacityBound ==
    (last.op = "read" /\ last.res.ok) => Len(last.res.val) <= MAX_CONTACTS

\* C2 (no duplicates): after every successful update, whatever the file held
\* and whatever the add batch, the persisted list holds no contact twice,
\* holds exactly the contacts of the merged list, and orders them by their
\* first occurrence in the merged list.
C2_NoDuplicates ==
    UpdateDone =>
        LET after == AfterList
        IN  /\ Decodable(file)
            /\ NoDup(after)
            /\ Elems(after) = Elems(last.merged)
            /\ \A i, j \in 1..Len(after) :
                  i < j => FirstIndex(last.merged, after[i])
                              < FirstIndex(last.merged, after[j])

\* C2 witness: the file held a contact twice, the add batch offered a new
\* contact twice, and the update succeeded.
C2_Witness ==
    /\ UpdateDone
    /\ ~NoDup(BeforeList)
    /\ ~NoDup(AddNew)
    /\ Len(AfterList) >= 2

\* C3 (idempotent re-add): an add-only update repeated with the same batch
\* leaves the persisted list exactly as the call before it left it.
C3_IdempotentReAdd ==
    (UpdateDone /\ last.again) => file = last.before

\* C4 as amended (merge order): when the post-prune list L is not empty, the
\* list handed to the write is the first k = min(capacity - len(L),
\* len(add')) contacts of add' in REVERSED order, followed by L; the
\* persisted list is that list whenever it holds no contact twice.
C4_MergeOrderReversed ==
    UpdateDone =>
        LET l == PostPrune
            new == Without(last.add, l)
            k == Min(MAX_CONTACTS - Len(l), Len(new))
            expected == Rev(Take(new, k)) \o l
        IN  l # <<>> =>
                /\ last.merged = expected
                /\ NoDup(expected) => AfterList = expected

\* C4 witness: two or more contacts were inserted in front of a non-empty
\* list.
C4_Witness ==
    /\ UpdateDone
    /\ PostPrune # <<>>
    /\ Min(MAX_CONTACTS - Len(PostPrune), Len(AddNew)) >= 2
    /\ NoDup(AddNew)

\* C4 as stated (merge order): when the post-prune list L is not empty, the
\* persisted list is the first k contacts of add' in their ORIGINAL order,
\* followed by L (here for batches without repeated contacts).
C4_MergeOrderOriginal ==
    UpdateDone =>
        LET l == PostPrune
            new == Without(last.add, l)
            k == Min(MAX_CONTACTS - Len(l), Len(new))
        IN  (l # <<>> /\ NoDup(new) /\ NoDup(l)) =>
                AfterList = Take(new, k) \o l

\* C5 as amended (full list): with capacity 3 and persisted list [1, 2, 3],
\* update(add=[4], prune=[]) leaves the persisted list [1, 2, 3]; 4 is
\* discarded.
C5_FullListKept ==
    (/\ MAX_CONTACTS = 3
     /\ UpdateDone
     /\ BeforeList = <<1, 2, 3>>
     /\ last.add = <<4>>
     /\ last.prune = <<>>) => AfterList = <<1, 2, 3>>

\* C5 witness: that call has been made on that list.
C5_Witness ==
    /\ MAX_CONTACTS = 3
    /\ UpdateDone
    /\ BeforeList = <<1, 2, 3>>
    /\ last.add = <<4>>
    /\ last.prune = <<>>

\* C5 as stated (full list): with capacity 3 and persisted list [1, 2, 3],
\* update(add=[4], prune=[]) makes the persisted list [4, 1, 2].
C5_FullListEvicts ==
    (/\ MAX_CONTACTS = 3
     /\ UpdateDone
     /\ BeforeList = <<1, 2, 3>>
     /\ last.add = <<4>>
     /\ last.prune = <<>>) => AfterList = <<4, 1, 2>>

\* C6 (insertion stops at capacity): on a list of MAX_CONTACTS distinct
\* contacts an update without prune leaves the list as it was; and no update
\* persists a contact that was neither in the list nor in its own add batch.
C6_InsertionStopsAtCapacity ==
    UpdateDone =>
        LET before == BeforeList
            after == AfterList
        IN  /\ (/\ last.prune = <<>>
                /\ Len(before) = MAX_CONTACTS
                /\ NoDup(before)) => after = before
            /\ Elems(after) \subseteq Elems(before) \cup Elems(last.add)

\* C6 witness: the list was full and the add batch offered a contact that
\* was not in it.
C6_Witness ==
    /\ UpdateDone
    /\ last.prune = <<>>
    /\ Len(BeforeList) = MAX_CONTACTS
    /\ NoDup(BeforeList)
    /\ AddNew # <<>>

\* The case C7 is about: one contact c to add, one other contact p to prune,
\* c not in the list.
PruneThenAdd ==
    /\ UpdateDone
    /\ Len(last.add) = 1
    /\ Len(last.prune) = 1
    /\ last.add[1] # last.prune[1]
    /\ last.add[1] \notin Elems(BeforeList)

\* C7 as amended (prune-then-add): the list is left without p; c is at index
\* 0 exactly when the list left by the prune is shorter than the capacity,
\* and otherwise c is discarded and the list is the pruned list; when p was
\* in a list of at most capacity contacts, c is at index 0 and the length is
\* unchanged.
C7_PruneThenAdd ==
    PruneThenAdd =>
        LET c == last.add[1]
            p == last.prune[1]
            before == BeforeList
            after == AfterList
            l == Without(before, last.prune)
        IN  /\ p \notin Elems(after)
            /\ IF Len(l) < MAX_CONTACTS
               THEN after = <<c>> \o l
               ELSE after = l
            /\ (p \in Elems(before) /\ Len(before) <= MAX_CONTACTS) =>
                  /\ after[1] = c
                  /\ Len(after) = Len(before)

\* C7 witness: p was the middle contact of a full list.
C7_Witness ==
    /\ PruneThenAdd
    /\ Len(BeforeList) = MAX_CONTACTS
    /\ BeforeList[2] = last.prune[1]

\* C7 as stated (prune-then-add): c is at index 0 and p is gone wherever p
\* was, present or not, and the length is unchanged when p was in the list.
C7_PruneThenAddAlways ==
    PruneThenAdd =>
        LET before == BeforeList
            after == AfterList
        IN  /\ after # <<>>
            /\ after[1] = last.add[1]
            /\ last.prune[1] \notin Elems(after)
            /\ last.prune[1] \in Elems(before) => Len(after) = Len(before)

\* C8 (prune semantics): update(add=[], prune=P) succeeds and leaves exactly
\* the contacts of the list that are not in P, in their previous order; so
\* it removes one contact when P names one contact of the list, and leaves
\* the empty list when P names them all.
C8_PruneSemantics ==
    (last.op = "update" /\ last.add = <<>> /\ last.fault = NoFault) =>
        LET before == BeforeList
            after == AfterList
            named == Elems(last.prune)
        IN  /\ last.res.ok
            /\ Decodable(file)
            /\ Elems(after) = Elems(before) \ named
            /\ Len(after)
                  = Cardinality({i \in 1..Len(before) : before[i] \notin named})
            /\ \A i, j \in 1..Len(after) :
                  i < j => FirstIndex(before, after[i]) < FirstIndex(before, after[j])
            /\ Elems(before) \subseteq named => after = <<>>

\* C8 witness: P names a contact in the middle of the list and a contact
\* that is not in it.
C8_Witness ==
    /\ UpdateDone
    /\ last.add = <<>>
    /\ Len(last.prune) = 2
    /\ Len(BeforeList) = 3
    /\ BeforeList[2] \in Elems(last.prune)
    /\ Elems(last.prune) \ Elems(BeforeList) # {}

\* C9 (oldest): on a persisted list L, oldest_contacts(n) returns
\* min(n, len(L)) contacts, the i-th (from 0) being L[len(L) - 1 - i].
C9_Oldest ==
    (last.op = "oldest" /\ Decodable(last.before) /\ last.fault = NoFault) =>
        LET l == ListOf(last.before)
            r == last.res.val
        IN  /\ last.res.ok
            /\ Len(r) = Min(last.n, Len(l))
            /\ \A i \in 0..(Len(r) - 1) : r[i + 1] = l[Len(l) - i]

\* C9 witness: some but not all contacts of a list were asked for.
C9_Witness ==
    /\ last.op = "oldest"
    /\ Decodable(last.before)
    /\ last.n >= 2
    /\ last.n < Len(ListOf(last.before))

\* C10 as amended (read of a missing file): read_bootstrap_file on a missing
\* file returns the not-found error, not an empty list; every other failure
\* (open, read, decode) is an error too, and success returns the decoded
\* list.
C10_ReadMissingIsError ==
    last.op = "read" =>
        /\ ~last.before.exists => (~last.res.ok /\ last.res.err = "NotFound")
        /\ (last.before.exists /\ last.fault.rf # "none") =>
              (~last.res.ok /\ last.res.err # "NotFound")
        /\ (last.before.exists /\ ~Decode(last.before.bytes).ok) => ~last.res.ok
        /\ last.res.ok => (/\ Decodable(last.before)
                           /\ last.res.val = ListOf(last.before))

\* C10 witness: the file was missing when read_bootstrap_file was called.
C10_Witness ==
    /\ last.op = "read"
    /\ ~last.before.exists

\* C10 as stated (read of a missing file): read_bootstrap_file on a missing
\* file returns success with the empty list.
C10_ReadMissingIsEmpty ==
    (last.op = "read" /\ ~last.before.exists) =>
        (last.res.ok /\ last.res.val = <<>>)

-----------------------------------------------------------------------------
(* C11..C20 *)

\* The file was there but the call could not read it (open or read_to_string
\* failed).
UpdateUnreadable ==
    /\ last.op = "update"
    /\ last.before.exists
    /\ last.fault.rf # "none"

\* C11 as amended (update on an unreadable file): update takes the persisted
\* list to be empty, as it does for a missing file; it returns an error only
\* when its write fails, and when the write succeeds it returns success and
\* has overwritten the file with the add batch, repeats removed.
C11_UnreadableOverwritten ==
    UpdateUnreadable =>
        /\ last.read = <<>>
        /\ last.res.ok <=> last.fault.wf = "none"
        /\ last.res.ok =>
              /\ Decodable(file)
              /\ AfterList = FirstOccurrences(last.add)

\* C11 witness: a file holding contacts could not be read, and the update
\* succeeded and replaced them.
C11_Witness ==
    /\ UpdateUnreadable
    /\ last.res.ok
    /\ Decodable(last.before)
    /\ BeforeList # <<>>
    /\ last.add # <<>>
    /\ Elems(BeforeList) \cap Elems(AfterList) = {}

\* C11 as stated (update on an unreadable file): update returns an error and
\* leaves the file as it was.
C11_UnreadableIsError ==
    UpdateUnreadable => (~last.res.ok /\ file = last.before)

\* The file was there and was read, and its content is not the text of a
\* contact list.
ReadUndecodable ==
    /\ last.op \in {"read", "oldest"}
    /\ last.before.exists
    /\ last.fault.rf = "none"
    /\ ~Decode(last.before.bytes).ok

\* C12 as amended (decode failures): on undecodable content
\* read_bootstrap_file returns the decode error; oldest_contacts does not, it
\* returns success with the empty list.
C12_DecodeFailureReadOnly ==
    ReadUndecodable =>
        IF last.op = "read"
        THEN ~last.res.ok /\ last.res.err = "Decode"
        ELSE last.res.ok /\ last.res.val = <<>>

\* C12 witness: oldest_contacts(n), n > 0, was called on a file that a failed
\* write left with part of a text.
C12_Witness ==
    /\ ReadUndecodable
    /\ last.op = "oldest"
    /\ last.n > 0
    /\ last.before.bytes # <<>>

\* C12 as stated (decode failures): on undecodable content both
\* read_bootstrap_file and oldest_contacts return an error.
C12_DecodeFailureReported == ReadUndecodable => ~last.res.ok

\* C13 (recovery from a corrupt file): an update that finds the file empty
\* or undecodable takes the persisted list to be empty and, when its own
\* write succeeds, returns success and leaves a decodable file that holds
\* the add batch, repeats removed.
C13_RecoversFromCorruptFile ==
    (/\ last.op = "update"
     /\ last.before.exists
     /\ last.fault.rf = "none"
     /\ ~Decode(last.before.bytes).ok) =>
        /\ last.read = <<>>
        /\ last.fault.wf = "none" =>
              /\ last.res.ok
              /\ Decodable(file)
              /\ AfterList = FirstOccurrences(last.add)

\* C13 witness: a failed write had left part of a text, and the next update,
\* with a repeated contact in its add batch, succeeded.
C13_Witness ==
    /\ UpdateDone
    /\ last.before.exists
    /\ last.before.bytes # <<>>
    /\ ~Decode(last.before.bytes).ok
    /\ ~NoDup(last.add)

\* C15 (insert into an empty list): when the list is empty after pruning
\* (file empty or missing, or every contact pruned by this call), a
\* successful update leaves the add batch with its repeats removed, first
\* occurrences in their original order.
C15_InsertIntoEmpty ==
    (UpdateDone /\ PostPrune = <<>>) =>
        LET after == AfterList
        IN  /\ Decodable(file)
            /\ after = FirstOccurrences(last.add)

\* C15 witness: the call pruned every contact of a non-empty list and its
\* add batch held a contact twice.
C15_Witness ==
    /\ UpdateDone
    /\ BeforeList # <<>>
    /\ PostPrune = <<>>
    /\ ~NoDup(last.add)
    /\ Len(AfterList) >= 2

\* C16 (success implies a complete durable write): update returns success
\* exactly when create, write and sync_all all succeeded, and then
\* read_bootstrap_file returns the list the update computed (repeats
\* removed); a failure of any of the three is returned as an error.
C16_SuccessMeansWritten ==
    last.op = "update" =>
        /\ last.res.ok <=> last.fault.wf = "none"
        /\ last.res.ok =>
              read_bootstrap_file(file, "none")
                  = Ok(FirstOccurrences(last.merged))

\* C16 witness: a successful update replaced a file that held another list.
C16_Witness ==
    /\ UpdateDone
    /\ Decodable(last.before)
    /\ BeforeList # <<>>
    /\ AfterList # BeforeList
    /\ Len(AfterList) >= 2

\* C18 (adding never evicts): after a successful update that read a
\* decodable list without repeats, the contacts of that list the call did
\* not prune are the tail of the new list, in their old order.
C18_KeptContactsAreSuffix ==
    (UpdateDone /\ Decodable(last.before) /\ NoDup(BeforeList)) =>
        LET l == PostPrune
            after == AfterList
        IN  /\ Len(after) >= Len(l)
            /\ SubSeq(after, Len(after) - Len(l) + 1, Len(after)) = l

\* C18 witness: the list was full after pruning and the call offered new
\* contacts.
C18_Witness ==
    /\ UpdateDone
    /\ Decodable(last.before)
    /\ last.prune # <<>>
    /\ Len(PostPrune) = MAX_CONTACTS
    /\ AddNew # <<>>

\* C19 (a contact in both batches is re-added): such a contact is in the
\* list afterwards exactly when the list was empty after pruning or its turn
\* in the add batch came while a slot was free, and then it stands among the
\* new insertions, in front of every contact that was kept.
C19_PrunedAndAddedIsReAdded ==
    UpdateDone =>
        LET l == PostPrune
            new == AddNew
            after == AfterList
        IN  \A c \in Elems(last.add) \cap Elems(last.prune) :
               /\ c \in Elems(after) <=>
                     \/ l = <<>>
                     \/ FirstIndex(new, c) <= MAX_CONTACTS - Len(l)
               /\ c \in Elems(after) =>
                     FirstIndex(after, c) <= Len(after) - Len(l)

\* C19 witness: the last contact of a list of two or more was in both
\* batches and is now the first.
C19_Witness ==
    /\ UpdateDone
    /\ Decodable(last.before)
    /\ Len(BeforeList) >= 2
    /\ BeforeList[Len(BeforeList)] \in Elems(last.add) \cap Elems(last.prune)
    /\ AfterList[1] = BeforeList[Len(BeforeList)]

\* C20 (read operations leave the file alone): after read_bootstrap_file,
\* oldest_contacts or get_serialised_contacts the file is what it was when
\* the call was made, whatever the call returned.
C20_ReadsLeaveFile ==
    last.op \in {"read", "oldest", "serialised"} => file = last.before

\* C20 witness: oldest_contacts or get_serialised_contacts was called on a
\* file that a failed write left with part of a text.
C20_Witness ==
    /\ last.op \in {"oldest", "serialised"}
    /\ last.before.exists
    /\ last.before.bytes # <<>>
    /\ ~Decode(last.before.bytes).ok
    /\ last.fault.rf = "none"

\* The buffers that are the JSON text of a contact list, line breaks apart.
ListTexts == {Encode(l) : l \in SeqsUpTo(Contacts, MaxBuffer)}

WellFormed(buffer) ==
    SelectSeq(buffer, LAMBDA t : t # Newline) \in ListTexts

\* C17 (serialization round trip): parse_contacts of what serialise_contacts
\* returned for a list is that list, the empty list and lists with a
\* repeated contact included; parse_contacts of a buffer that is not the
\* text of a list is None.
C17_RoundTrip ==
    last.op = "parse" =>
        /\ last.roundtrip => last.res = Some(last.list)
        /\ ~WellFormed(last.buffer) => last.res = None

\* C17 witness: a list holding the same contact twice went through
\* serialise_contacts and parse_contacts (test::serialisation).
C17_Witness ==
    /\ last.op = "parse"
    /\ last.roundtrip
    /\ Len(last.list) >= 2
    /\ last.list[1] = last.list[2]
    /\ last.res.some

\* What one update leaves, computed from the list it read and its batches.
Expected(snap, add, prune) ==
    LET l == Without(snap, prune)
        new == Without(add, l)
        k == Max(0, MAX_CONTACTS - Len(l))
    IN  FirstOccurrences(IF l = <<>> THEN new ELSE Rev(Take(new, k)) \o l)

BothDone == \A p \in Procs : calls[p].pc = "done"

LastWriter == CHOOSE p \in Procs : calls[p].final

\* C14 as amended (last writer wins): when both updates have completed and
\* neither File::create fell between the other's File::create and write,
\* the file holds exactly the list the last writer computed from the list
\* it had read; and when the last writer read after the other update had
\* completed, what the other update left is what it read, so the contacts
\* the other left stay unless it pruned them, and the contacts the other
\* pruned stay out unless one of the two added them.
C14_LastWriterWinsApart ==
    (BothDone /\ \A p \in Procs : ~calls[p].overlap) =>
        LET w == calls[LastWriter]
            o == calls[Other(LastWriter)]
            left == Expected(o.snap, o.add, o.prune)
            after == AfterList
        IN  /\ Decodable(file)
            /\ after = Expected(w.snap, w.add, w.prune)
            /\ w.after =>
                  /\ w.snap = left
                  /\ Elems(left) \ Elems(w.prune) \subseteq Elems(after)
                  /\ \A c \in Elems(o.prune) \ (Elems(o.add) \cup Elems(w.add)) :
                        c \notin Elems(after)

\* C14 witness: both updates read before either wrote, the writes did not
\* overlap, and a contact the first writer added is not in the file although
\* the list has room and the last writer did not prune it.
C14_Witness ==
    /\ BothDone
    /\ \A p \in Procs : ~calls[p].overlap /\ ~calls[p].after
    /\ Decodable(file)
    /\ Len(AfterList) < MAX_CONTACTS
    /\ \E c \in Elems(calls[Other(LastWriter)].add) :
          /\ c \notin Elems(AfterList)
          /\ c \notin Elems(calls[LastWriter].prune)

\* C14 as stated (last writer wins): when both updates have completed the
\* file holds exactly the list the last writer computed from the list it
\* had read.
C14_LastWriterWins ==
    BothDone =>
        LET w == calls[LastWriter]
        IN  /\ Decodable(file)
            /\ AfterList = Expected(w.snap, w.add, w.prune)

====
